---- MODULE Spec2Model ----
(***************************************************************************)
(* Marketing attribution pipeline of Cobre_Prueba:                         *)
(*   load_data -> preprocess_data -> calculate_funnel_metrics,             *)
(*                calculate_origin_conversion -> calculate_origin_score    *)
(* Data frames are records [cols, rows]; a row is a function from column   *)
(* name to cell; a cell is NaN (<<>>) or <<payload>>.                      *)
(* The forecast path of app.py (generate_forecast_data) works on date-     *)
(* indexed series, functions from day to count; SpecApp runs the script    *)
(* app.py with its two st.cache_data functions over changing source files. *)
(***************************************************************************)
EXTENDS Integers, Sequences, FiniteSets, TLC

VARIABLES
    df_raw,             \* the joined record set held by the caller (app.py df_raw)
    df_processed,       \* result of preprocess_data
    funnel_metrics,     \* result of calculate_funnel_metrics
    origin_conversion,  \* result of calculate_origin_conversion
    score_input,        \* df argument of calculate_origin_score
    weights,            \* <<weight_conversion, weight_speed>>, in millionths
    df_scored,          \* local copy made by calculate_origin_score (after the fills)
    origin_score,       \* result of calculate_origin_score
    forecast_locals,    \* locals of generate_forecast_data as its last call left them
    forecast_out,       \* the three values returned by generate_forecast_data
    messages,           \* user-visible messages (st.error, st.warning) of the run
    files,              \* the two source files on disk
    cache,              \* entries of st.cache_data, per cached function
    pc,                 \* position of the script app.py in its current run
    calls,              \* functions invoked in the current run, with their outcome
    cache_hits,         \* cache hits of the current run
    df_reprocessed      \* result of a second preprocess_data on the same record set

forecast_vars == <<forecast_locals, forecast_out, messages>>

app_vars == <<files, cache, pc, calls, cache_hits>>

vars == <<df_raw, df_processed, funnel_metrics, origin_conversion,
          score_input, weights, df_scored, origin_score, forecast_vars, app_vars,
          df_reprocessed>>

\* ------------------------------------------------------------------ bounds
MaxRows == 2        \* rows of a joined record set
MaxFunnelRows == 3  \* rows of a record set given to calculate_funnel_metrics
MaxLeads == 2       \* distinct lead identifiers
MaxDay == 2         \* calendar days 1..MaxDay
MaxOrigins == 2     \* rows of an origin table given to calculate_origin_score
MaxVal == 2         \* metric values 0..MaxVal of an origin table
MaxForecastDay == 10 \* first-contact days 1..MaxForecastDay of the forecast path
MaxFileRows == 1    \* records 0..MaxFileRows of a source file

\* ------------------------------------------------------------------ cells
NaN == <<>>
Some(v) == <<v>>
notna(c) == c # NaN
isnull(c) == c = NaN
Get(c) == c[1]

\* outcome of a call: not made yet, returned a value, or raised
NotComputed == [status |-> "NotComputed"]
Ok(v) == [status |-> "ok", value |-> v]
Raise(e) == [status |-> e]
KeyError == "KeyError"
ValueError == "ValueError"

Range(s) == {s[i] : i \in DOMAIN s}
Abs(x) == IF x < 0 THEN -x ELSE x

\* sequences over S of length 0..n
SeqUpTo(S, n) == UNION {[1..k -> S] : k \in 0..n}

\* a rational number num/den, den > 0
Ratio(n, d) == [num |-> n, den |-> d]
Zero == Ratio(0, 1)
RatLt(a, b) ==
    IF a.den = b.den THEN a.num < b.num ELSE a.num * b.den < b.num * a.den
RatEq(a, b) ==
    IF a.den = b.den THEN a.num = b.num ELSE a.num * b.den = b.num * a.den
InUnitInterval(r) == 0 <= r.num /\ r.num <= r.den

\* ------------------------------------------------- the joined record set
\* text of a date cell: its first 10 characters spell day d (ymd = Some(d)) or
\* no date at all (ymd = NaN); time says whether more characters follow
DateText(d) == Some([ymd |-> Some(d), time |-> FALSE])      \* "2018-01-15"
DateTimeText(d) == Some([ymd |-> Some(d), time |-> TRUE])   \* "2018-01-15 19:58:54"
BadText == Some([ymd |-> NaN, time |-> FALSE])              \* "n/a"

\* columns of olist_marketing_qualified_leads left-joined with olist_closed_deals
JoinedCols == {"mql_id", "first_contact_date", "landing_page_id", "origin",
               "seller_id", "sdr_id", "sr_id", "won_date", "business_segment"}

JoinedRow(mql, fc, origin, seller, sr, won, seg) ==
    [c \in JoinedCols |->
        CASE c = "mql_id" -> mql
          [] c = "first_contact_date" -> fc
          [] c = "landing_page_id" -> Some("lp")
          [] c = "origin" -> origin
          [] c = "seller_id" -> seller
          [] c = "sdr_id" -> IF seller = NaN THEN NaN ELSE Some("sdr")
          [] c = "sr_id" -> sr
          [] c = "won_date" -> won
          [] c = "business_segment" -> seg]

Frame(cols, rows) == [cols |-> cols, rows |-> rows]

LeadIds == {NaN} \cup {Some(i) : i \in 1..MaxLeads}

\* ------------------------------------------------------ pandas primitives
\* Series.nunique(): number of distinct non-null values of a column
nunique(rows, col) == Cardinality({rows[i][col] : i \in DOMAIN rows} \ {NaN})

\* Series.count(): number of non-null values of a column
count(rows, col) == Cardinality({i \in DOMAIN rows : notna(rows[i][col])})

\* df[df[col].notna()]: the rows whose cell in col is defined, in order
RECURSIVE FilterNotna(_, _)
FilterNotna(rows, col) ==
    IF rows = <<>> THEN <<>>
    ELSE IF notna(Head(rows)[col])
         THEN <<Head(rows)>> \o FilterNotna(Tail(rows), col)
         ELSE FilterNotna(Tail(rows), col)

\* ------------------------------------------------- calculate_funnel_metrics
FunnelCols == {"mql_id", "sr_id", "won_date"}

\* the division without its guard: n / 0 is left as the ill-formed n/0
SafeDivUnguarded(n, d) == Ratio(n, d)

\* (n / d) if d > 0 else 0
SafeDiv(n, d) == IF d > 0 THEN Ratio(n, d) ELSE Zero

calculate_funnel_metrics(df) ==
    IF ~(FunnelCols \subseteq df.cols) THEN Raise(KeyError)
    ELSE
    LET n_mql == nunique(df.rows, "mql_id")
        n_sql == nunique(FilterNotna(df.rows, "sr_id"), "mql_id")
        n_won == nunique(FilterNotna(df.rows, "won_date"), "mql_id")
    IN Ok([n_mql |-> n_mql,
         n_sql |-> n_sql,
         n_won |-> n_won,
         conversion_mql_to_sql |-> SafeDiv(n_sql, n_mql),
         conversion_sql_to_won |-> SafeDiv(n_won, n_sql),
         conversion_mql_to_won |-> SafeDiv(n_won, n_mql)])

\* ------------------------------------------------------------ preprocessing
\* round(n / d) to the nearest integer, ties to even (numpy round), n >= 0, d > 0
RoundHalfEven(n, d) ==
    LET q == n \div d
        r == n % d
    IN  IF 2 * r < d THEN q
        ELSE IF 2 * r > d THEN q + 1
        ELSE IF q % 2 = 0 THEN q ELSE q + 1

Threshold == 60

\* (df.count() / total_sellers * 100).round(2) < threshold, in hundredths of a
\* percent; with total_sellers = 0 the rate is inf or NaN and never below
IsLowCompletion(cnt, total_sellers, threshold) ==
    /\ total_sellers > 0
    /\ RoundHalfEven(cnt * 100 * 100, total_sellers) < threshold * 100

get_low_completion_columns(df, threshold) ==
    LET total_sellers == nunique(df.rows, "seller_id")
    IN  {c \in df.cols : IsLowCompletion(count(df.rows, c), total_sellers, threshold)}

fixed_drop_cols == {"landing_page_id", "seller_id", "sdr_id"}
essential_cols == {"mql_id", "sr_id", "won_date", "origin", "first_contact_date"}

\* the drop list without the protection of the essential columns
columns_to_drop_unprotected(df) ==
    {col \in fixed_drop_cols \cup get_low_completion_columns(df, Threshold) :
        col \in df.cols}

\* [col for col in columns_to_drop if col not in essential_cols and col in df.columns]
columns_to_drop(df) ==
    {col \in fixed_drop_cols \cup get_low_completion_columns(df, Threshold) :
        col \notin essential_cols /\ col \in df.cols}

NaT == NaN

\* Series.astype(str): a missing value becomes the text 'nan'
astype_str(c) == IF isnull(c) THEN BadText ELSE c

\* Series.str[:10]: the first ten characters
str_10(c) == Some([ymd |-> Get(c).ymd, time |-> FALSE])

\* pd.to_datetime(format='%Y-%m-%d', errors='coerce'): the day when the whole
\* text is a date, NaT otherwise
to_datetime(c) ==
    IF isnull(c) THEN NaT
    ELSE IF notna(Get(c).ymd) /\ ~Get(c).time THEN Get(c).ymd
    ELSE NaT

\* (won_date - first_contact_date).dt.days on the rows of the mask, NaN elsewhere
days_between(won, fc) ==
    IF notna(won) /\ notna(fc) THEN Some(Get(won) - Get(fc)) ELSE NaN

PreprocessRequired == {"seller_id", "first_contact_date", "won_date", "origin"}

\* a row whose target follows the presence of the closure text, parsed or not
preprocess_row_text_target(row, kept) ==
    LET fc == to_datetime(row["first_contact_date"])
        won == to_datetime(str_10(astype_str(row["won_date"])))
    IN  [c \in kept \cup {"target", "days_to_convert"} |->
            CASE c = "first_contact_date" -> fc
              [] c = "won_date" -> won
              [] c = "target" -> IF isnull(row["won_date"]) THEN Some(0) ELSE Some(1)
              [] c = "origin" -> IF isnull(row["origin"]) THEN Some("unknown")
                                 ELSE row["origin"]
              [] c = "days_to_convert" -> days_between(won, fc)
              [] OTHER -> row[c]]

preprocess_row(row, kept) ==
    LET fc == to_datetime(row["first_contact_date"])
        won == to_datetime(str_10(astype_str(row["won_date"])))
    IN  [c \in kept \cup {"target", "days_to_convert"} |->
            CASE c = "first_contact_date" -> fc
              [] c = "won_date" -> won
              [] c = "target" -> IF isnull(won) THEN Some(0) ELSE Some(1)
              [] c = "origin" -> IF isnull(row["origin"]) THEN Some("unknown")
                                 ELSE row["origin"]
              [] c = "days_to_convert" -> days_between(won, fc)
              [] OTHER -> row[c]]

preprocess_data(df) ==
    IF ~(PreprocessRequired \subseteq df.cols) THEN Raise(KeyError)
    ELSE
    LET kept == df.cols \ columns_to_drop(df)
    IN  Ok(Frame(kept \cup {"target", "days_to_convert"},
                 [i \in DOMAIN df.rows |-> preprocess_row(df.rows[i], kept)]))

\* the caller's record set once preprocess_data has run on an aliased frame
\* (drop / assign done in place)
input_after_inplace(df) ==
    IF preprocess_data(df).status = "ok" THEN preprocess_data(df).value ELSE df

\* the caller's record set after preprocess_data: drop() and assign() return
\* new frames and every later assignment is made on df_processed
input_after_preprocess(df) == df

\* ----------------------------------------------- calculate_origin_conversion
\* a float: a number (a Ratio), +infinity (x / 0 with x > 0) or NaN (0 / 0)
Num(r) == [kind |-> "num", v |-> r]
Inf == [kind |-> "inf", v |-> Zero]
NanF == [kind |-> "nan", v |-> Zero]

\* Series / Series in floating point: no fault on a zero divisor
FloatDiv(n, d) ==
    IF d # 0 THEN Num(Ratio(n, d)) ELSE IF n > 0 THEN Inf ELSE NanF

\* (n / d * 100).round(2), kept in hundredths: Ratio(k, 100)
Percent2(n, d) ==
    IF d # 0 THEN Num(Ratio(RoundHalfEven(n * 100 * 100, d), 100))
    ELSE IF n > 0 THEN Inf ELSE NanF

\* the origin keys, in the order groupby sorts them
OriginNames == <<"email", "organic", "paid_search", "referral", "social">>

\* df.query("origin != 'unknown'")
RECURSIVE QueryKnownOrigin(_)
QueryKnownOrigin(rows) ==
    IF rows = <<>> THEN <<>>
    ELSE IF Head(rows)["origin"] # Some("unknown")
         THEN <<Head(rows)>> \o QueryKnownOrigin(Tail(rows))
         ELSE QueryKnownOrigin(Tail(rows))

\* the defined values of a column, as an ascending sequence
RECURSIVE SortedAsc(_)
SortedAsc(bag) ==
    IF bag = <<>> THEN <<>>
    ELSE LET k == CHOOSE i \in DOMAIN bag : \A j \in DOMAIN bag : bag[i] <= bag[j]
         IN  <<bag[k]>> \o SortedAsc([i \in 1..(Len(bag) - 1) |->
                                        IF i < k THEN bag[i] ELSE bag[i + 1]])

RECURSIVE DefinedValues(_, _)
DefinedValues(rows, col) ==
    IF rows = <<>> THEN <<>>
    ELSE IF notna(Head(rows)[col])
         THEN <<Get(Head(rows)[col])>> \o DefinedValues(Tail(rows), col)
         ELSE DefinedValues(Tail(rows), col)

\* Series.quantile(0.75), linear interpolation between order statistics;
\* NaN when no value is defined
quantile_75(rows, col) ==
    LET xs == SortedAsc(DefinedValues(rows, col))
        m == Len(xs) - 1
        lo == (3 * m) \div 4 + 1
        frac4 == (3 * m) % 4
        hi == IF frac4 = 0 THEN lo ELSE lo + 1
    IN  IF xs = <<>> THEN NanF
        ELSE Num(Ratio(4 * xs[lo] + frac4 * (xs[hi] - xs[lo]), 4))

\* sum of the target column
RECURSIVE SumTarget(_)
SumTarget(rows) ==
    IF rows = <<>> THEN 0 ELSE Get(Head(rows)["target"]) + SumTarget(Tail(rows))

RECURSIVE SumCol(_, _)
SumCol(rows, col) ==
    IF rows = <<>> THEN 0 ELSE Head(rows)[col] + SumCol(Tail(rows), col)

RECURSIVE GroupRows(_, _)
GroupRows(rows, name) ==
    IF rows = <<>> THEN <<>>
    ELSE IF Head(rows)["origin"] = Some(name)
         THEN <<Head(rows)>> \o GroupRows(Tail(rows), name)
         ELSE GroupRows(Tail(rows), name)

\* groupby('origin', as_index=False).agg(...): one row per origin present,
\* in the order of the keys
RECURSIVE GroupByOrigin(_, _)
GroupByOrigin(rows, k) ==
    IF k > Len(OriginNames) THEN <<>>
    ELSE LET grp == GroupRows(rows, OriginNames[k])
         IN  (IF grp = <<>> THEN <<>>
              ELSE <<[origin |-> Some(OriginNames[k]),
                      mql |-> count(grp, "mql_id"),
                      won |-> SumTarget(grp),
                      days_to_convert_q3 |-> quantile_75(grp, "days_to_convert")]>>)
             \o GroupByOrigin(rows, k + 1)

\* order of sort_values(ascending=False): NaN last, +infinity first
FloatGt(a, b) ==
    CASE a.kind = "nan" -> FALSE
      [] b.kind = "nan" -> TRUE
      [] a.kind = "inf" -> b.kind # "inf"
      [] b.kind = "inf" -> FALSE
      [] OTHER -> RatLt(b.v, a.v)

RECURSIVE InsertByConversion(_, _)
InsertByConversion(row, sorted) ==
    IF sorted = <<>> THEN <<row>>
    ELSE IF FloatGt(row["conversion"], Head(sorted)["conversion"])
         THEN <<row>> \o sorted
         ELSE <<Head(sorted)>> \o InsertByConversion(row, Tail(sorted))

RECURSIVE SortByConversion(_)
SortByConversion(rows) ==
    IF rows = <<>> THEN <<>>
    ELSE InsertByConversion(rows[Len(rows)],
                            SortByConversion(SubSeq(rows, 1, Len(rows) - 1)))

ConversionRequired == {"origin", "mql_id", "target", "days_to_convert"}
ConversionCols == {"origin", "mql", "won", "days_to_convert_q3", "mql_percentage",
                   "won_percentage", "conversion", "weighted_conversion"}

calculate_origin_conversion(df) ==
    IF ~(ConversionRequired \subseteq df.cols) THEN Raise(KeyError)
    ELSE
    LET grouped == GroupByOrigin(QueryKnownOrigin(df.rows), 1)
        total_mql == SumCol(grouped, "mql")
        total_won == SumCol(grouped, "won")
        full(g) ==
            [c \in ConversionCols |->
                CASE c = "mql_percentage" -> Percent2(g.mql, total_mql)
                  [] c = "won_percentage" -> Percent2(g.won, total_won)
                  [] c = "conversion" -> Percent2(g.won, g.mql)
                  \* (won / mql) * ln(mql), kept as its two factors
                  [] c = "weighted_conversion" ->
                        [rate |-> FloatDiv(g.won, g.mql), ln_of |-> g.mql]
                  [] OTHER -> g[c]]
    IN  Ok(Frame(ConversionCols,
                 SortByConversion([i \in DOMAIN grouped |-> full(grouped[i])])))

\* ---------------------------------------------------- calculate_origin_score
\* weights are counted in millionths: One is the 1.0 the weights must sum to
One == 1000000
\* numpy.isclose defaults: rtol = 1 / RtolInv, atol = 1 / AtolInv
RtolInv == 100000
AtolInv == 100000000

\* a one-sided test: the sum may not exceed b by more than the tolerance
IsCloseOneSided(a, b) ==
    (AtolInv \div One) * (a - b) <= 1 + Abs(b) \div (RtolInv \div (AtolInv \div One))

\* np.isclose(a, b): |a - b| <= atol + rtol * |b|, for a, b in millionths
IsClose(a, b) ==
    (AtolInv \div One) * Abs(a - b) <= 1 + Abs(b) \div (RtolInv \div (AtolInv \div One))

ScoreRequired == {"weighted_conversion", "days_to_convert_q3"}
list_cols_sel == {"origin", "mql", "conversion", "weighted_conversion",
                  "days_to_convert_q3", "norm_weighted_conversion",
                  "norm_days_to_convert", "origin_score"}

Half == Ratio(1, 2)

\* Series.min() / Series.max() of a column without undefined values
ColMin(rows, col) ==
    CHOOSE v \in {Get(rows[i][col]) : i \in DOMAIN rows} :
        \A i \in DOMAIN rows : v <= Get(rows[i][col])
ColMax(rows, col) ==
    CHOOSE v \in {Get(rows[i][col]) : i \in DOMAIN rows} :
        \A i \in DOMAIN rows : v >= Get(rows[i][col])

\* Series.max() skipping undefined values (at least one is defined)
ColMaxDefined(rows, col) == ColMax(FilterNotna(rows, col), col)

\* fills that put 0 in every undefined cell, whatever the other origins hold
fill_scored_zero(rows) ==
    [i \in DOMAIN rows |->
        [rows[i] EXCEPT
            !["weighted_conversion"] = IF isnull(@) THEN Some(0) ELSE @,
            !["days_to_convert_q3"] = IF isnull(@) THEN Some(0) ELSE @]]

\* the fills of lines 98-104
fill_scored(rows) ==
    LET any_days == \E i \in DOMAIN rows : notna(rows[i]["days_to_convert_q3"])
        fill_days == IF any_days THEN ColMaxDefined(rows, "days_to_convert_q3") ELSE 0
    IN  [i \in DOMAIN rows |->
            [rows[i] EXCEPT
                !["weighted_conversion"] = IF isnull(@) THEN Some(0) ELSE @,
                !["days_to_convert_q3"] = IF isnull(@) THEN Some(fill_days) ELSE @]]

\* the scaling with the degenerate case mapped to 0 instead of the mid-value
min_max_no_mid(v, lo, hi) ==
    IF hi > lo THEN Ratio(v - lo, hi - lo) ELSE Zero

\* (value - min) / (max - min) if max > min else 0.5
min_max(v, lo, hi) ==
    IF hi > lo THEN Ratio(v - lo, hi - lo) ELSE Half

\* (max - value) / (max - min) if max > min else 0.5
min_max_inverted(v, lo, hi) ==
    IF hi > lo THEN Ratio(hi - v, hi - lo) ELSE Half

\* weight_conversion * norm_wc + weight_speed * norm_days, weights in millionths
weighted_sum(w, norm_wc, norm_days) ==
    Ratio(w[1] * norm_wc.num * norm_days.den + w[2] * norm_days.num * norm_wc.den,
          One * norm_wc.den * norm_days.den)

\* sort_values(by=col, ascending=False): insertion of each row after the rows
\* that are not smaller (the order numpy gives to short arrays keeps ties in place)
RECURSIVE InsertDesc(_, _, _)
InsertDesc(row, sorted, col) ==
    IF sorted = <<>> THEN <<row>>
    ELSE IF RatLt(Head(sorted)[col], row[col])
         THEN <<row>> \o sorted
         ELSE <<Head(sorted)>> \o InsertDesc(row, Tail(sorted), col)

RECURSIVE SortDesc(_, _)
SortDesc(rows, col) ==
    IF rows = <<>> THEN <<>>
    ELSE InsertDesc(rows[Len(rows)], SortDesc(SubSeq(rows, 1, Len(rows) - 1), col), col)

\* lines 107-131 on the filled copy
score_rows(filled, w) ==
    IF filled = <<>> THEN <<>>
    ELSE
    LET min_wc == ColMin(filled, "weighted_conversion")
        max_wc == ColMax(filled, "weighted_conversion")
        min_days == ColMin(filled, "days_to_convert_q3")
        max_days == ColMax(filled, "days_to_convert_q3")
        norm_wc(r) == min_max(Get(r["weighted_conversion"]), min_wc, max_wc)
        norm_days(r) == min_max_inverted(Get(r["days_to_convert_q3"]), min_days, max_days)
    IN  [i \in DOMAIN filled |->
            [c \in list_cols_sel |->
                CASE c = "norm_weighted_conversion" -> norm_wc(filled[i])
                  [] c = "norm_days_to_convert" -> norm_days(filled[i])
                  [] c = "origin_score" ->
                        weighted_sum(w, norm_wc(filled[i]), norm_days(filled[i]))
                  [] OTHER -> filled[i][c]]]

\* whether the call gets past the weight check of line 85
weights_accepted(w) == IsClose(w[1] + w[2], One)

\* df_scored as the call leaves it: never made, or the copy with its fills
scored_copy(df, w) ==
    IF ~weights_accepted(w) THEN NotComputed
    ELSE IF ~(ScoreRequired \subseteq df.cols) THEN Ok(df)
    ELSE Ok(Frame(df.cols, fill_scored(df.rows)))

\* the score table returned in the order of the input rows
calculate_origin_score_unsorted(df, w) ==
    IF ~weights_accepted(w) THEN Raise(ValueError)
    ELSE IF ~(ScoreRequired \subseteq df.cols) THEN Raise(ValueError)
    ELSE IF ~(list_cols_sel \ {"norm_weighted_conversion", "norm_days_to_convert",
                               "origin_score"} \subseteq df.cols) THEN Raise(KeyError)
    ELSE Ok(Frame(list_cols_sel, score_rows(fill_scored(df.rows), w)))

calculate_origin_score(df, w) ==
    IF ~weights_accepted(w) THEN Raise(ValueError)
    ELSE IF ~(ScoreRequired \subseteq df.cols) THEN Raise(ValueError)
    ELSE IF ~(list_cols_sel \ {"norm_weighted_conversion", "norm_days_to_convert",
                               "origin_score"} \subseteq df.cols) THEN Raise(KeyError)
    ELSE Ok(Frame(list_cols_sel,
                  SortDesc(score_rows(fill_scored(df.rows), w), "origin_score")))

\* --------------------------------------------------- generate_forecast_data
\* Calendar days are integers: day 1 is Monday 2018-05-21, so that the cut-off
\* '2018-05-28' (a Monday) is day 8 and the Mondays are the days d with
\* d % 7 = 1.  First-contact texts of this path are date-only texts, as the
\* column is in the data set.
CutoffDay == 8
WeekLen == 7
FORECAST_STEPS == 13
FileNotFoundError == "FileNotFoundError"
ModelError == "Exception"
None == [status |-> "None"]

SetMin(S) == CHOOSE x \in S : \A y \in S : x <= y
SetMax(S) == CHOOSE x \in S : \A y \in S : y <= x

\* pd.to_datetime(errors='coerce') of a date text: its day, NaT when the text
\* is missing or is no date
to_datetime_coerce(c) == IF isnull(c) THEN NaT ELSE Get(c).ymd

\* assign(first_contact_date = to_datetime(...)).dropna(subset=['first_contact_date'])
parsed_rows(rows) ==
    [i \in DOMAIN rows |->
        [rows[i] EXCEPT !["first_contact_date"] = to_datetime_coerce(@)]]

dropna_first_contact(rows) == FilterNotna(rows, "first_contact_date")

\* groupby('first_contact_date').agg(mql_count=('mql_id', 'count')): one entry
\* per day present, counting the rows of the day that carry a lead identifier
groupby_first_contact(rows) ==
    [d \in {Get(rows[i]["first_contact_date"]) : i \in DOMAIN rows} |->
        Cardinality({i \in DOMAIN rows :
            /\ rows[i]["first_contact_date"] = Some(d)
            /\ notna(rows[i]["mql_id"])})]

\* pd.date_range(start=min, end=max, freq='D')
full_range(series) == SetMin(DOMAIN series) .. SetMax(DOMAIN series)

\* a reindex that keeps only the days already present
reindex_present(series, range) == series

\* reindex(full_range).fillna(0)
reindex_fillna(series, range) ==
    [d \in range |-> IF d \in DOMAIN series THEN series[d] ELSE 0]

\* query(" first_contact_date <= '2018-05-28' ")
query_cutoff(series) == [d \in {x \in DOMAIN series : x <= CutoffDay} |-> series[d]]

\* the Monday that closes the week of day d: d itself when d is a Monday
WeekLabel(d) == d + ((WeekLen + 1 - (d % WeekLen)) % WeekLen)

RECURSIVE SumOver(_, _)
SumOver(series, S) ==
    IF S = {} THEN 0
    ELSE LET d == CHOOSE x \in S : TRUE
         IN  series[d] + SumOver(series, S \ {d})

\* resample('W-MON').sum(): weekly bins closed and labelled on the right, one
\* per Monday from the bin of the first day to the bin of the last day
resample_w_mon(series) ==
    IF DOMAIN series = {} THEN series
    ELSE LET first == WeekLabel(SetMin(DOMAIN series))
             last == WeekLabel(SetMax(DOMAIN series))
         IN  [L \in {x \in first..last : WeekLabel(x) = x} |->
                 SumOver(series, {d \in DOMAIN series : WeekLabel(d) = L})]

\* a row of a weekly table: date, count and the tag of the column 'Data Type'
TaggedRow(d, n, tag) ==
    [c \in {"first_contact_date", "mql_count", "Data Type"} |->
        CASE c = "first_contact_date" -> d
          [] c = "mql_count" -> n
          [] c = "Data Type" -> tag]

\* reset_index() of a date-indexed series, in index order, with its tag
RECURSIVE reset_index(_, _)
reset_index(series, tag) ==
    IF DOMAIN series = {} THEN <<>>
    ELSE LET d == SetMin(DOMAIN series)
         IN  <<TaggedRow(d, series[d], tag)>> \o
             reset_index([x \in DOMAIN series \ {d} |-> series[x]], tag)

\* get_forecast(steps).predicted_mean of a model fitted on a W-MON series: the
\* steps Mondays that follow the last label; the predicted mean is the model's
\* choice
\* a forecast index that starts on the last observed label
forecast_dates_from_last(weekly, steps) ==
    [k \in 1..steps |-> SetMax(DOMAIN weekly) + WeekLen * (k - 1)]

forecast_dates(weekly, steps) ==
    [k \in 1..steps |-> SetMax(DOMAIN weekly) + WeekLen * k]

\* forecast_ts.reset_index().round(0), tagged 'Predicted'
predicted_rows(weekly, steps, mean) ==
    [k \in 1..steps |->
        TaggedRow(forecast_dates(weekly, steps)[k],
                  RoundHalfEven(mean.num, mean.den), "Predicted")]

\* pd.concat([actual, predicted], axis=0)
concat(a, b) == a \o b

\* astype(str).str[:7] of a day: its year and month
contact_period(d) ==
    IF d <= 11 THEN "2018-05"
    ELSE IF d <= 41 THEN "2018-06"
    ELSE IF d <= 72 THEN "2018-07"
    ELSE "2018-08"

RECURSIVE SumRows(_, _)
SumRows(rows, S) ==
    IF S = {} THEN 0
    ELSE LET i == CHOOSE x \in S : TRUE
         IN  rows[i]["mql_count"] + SumRows(rows, S \ {i})

\* groupby(['contact_period', 'Data Type']).agg(mql_count=('mql_count', 'sum'))
aggregate_by_period(rows) ==
    LET key(i) == <<contact_period(rows[i]["first_contact_date"]), rows[i]["Data Type"]>>
    IN  [k \in {key(i) : i \in DOMAIN rows} |->
            SumRows(rows, {i \in DOMAIN rows : key(i) = k})]

\* the locals of generate_forecast_data, as far as the body gets
kept_rows(src) == dropna_first_contact(parsed_rows(src.value.rows))

daily_series(src) ==
    LET grouped == groupby_first_contact(kept_rows(src))
    IN  reindex_fillna(grouped, full_range(grouped))

weekly_series(src) == resample_w_mon(query_cutoff(daily_series(src)))

\* the exception raised inside the try block, "none" when the body completes:
\* read_csv faults, date_range refuses NaT bounds when no row is kept, SARIMAX
\* refuses an empty series, and the fit may fail on the series it is given
forecast_exception(src, fit_ok) ==
    IF src.status # "ok" THEN src.status
    ELSE IF kept_rows(src) = <<>> THEN ValueError
    ELSE IF DOMAIN weekly_series(src) = {} THEN ValueError
    ELSE IF ~fit_ok THEN ModelError
    ELSE "none"

\* st.error of the except clause that catches the exception
forecast_error_message(e) ==
    IF e = FileNotFoundError THEN "Error loading data file"
    ELSE "An error occurred during data processing or modeling"

\* a body whose failure hands back the weekly actuals it had already built
generate_forecast_data_partial(src, forecast_n, fit_ok, mean) ==
    IF src.status # "ok" \/ kept_rows(src) = <<>> THEN <<None, None, None>>
    ELSE IF forecast_exception(src, fit_ok) # "none"
         THEN <<Ok(reset_index(weekly_series(src), "Actual")), None, None>>
    ELSE LET actual == reset_index(weekly_series(src), "Actual")
             predicted == predicted_rows(weekly_series(src), forecast_n, mean)
         IN  <<Ok(actual), Ok(predicted),
               Ok(aggregate_by_period(concat(actual, predicted)))>>

generate_forecast_data(src, forecast_n, fit_ok, mean) ==
    IF forecast_exception(src, fit_ok) # "none" THEN <<None, None, None>>
    ELSE LET actual == reset_index(weekly_series(src), "Actual")
             predicted == predicted_rows(weekly_series(src), forecast_n, mean)
         IN  <<Ok(actual), Ok(predicted),
               Ok(aggregate_by_period(concat(actual, predicted)))>>

\* what the call leaves in its locals
forecast_locals_after(src, forecast_n, fit_ok, mean) ==
    LET e == forecast_exception(src, fit_ok)
        read == src.status = "ok"
        aggregated == read /\ kept_rows(src) # <<>>
    IN  [status |-> "ok",
         exception |-> e,
         df_processed |-> IF read THEN Ok(kept_rows(src)) ELSE NotComputed,
         mql_daily_series |-> IF aggregated THEN Ok(daily_series(src)) ELSE NotComputed,
         mql_weekly_series_pd |-> IF aggregated THEN Ok(weekly_series(src)) ELSE NotComputed,
         df_concat |-> IF e = "none"
                       THEN Ok(concat(reset_index(weekly_series(src), "Actual"),
                                      predicted_rows(weekly_series(src), forecast_n, mean)))
                       ELSE NotComputed]

\* ------------------------------------------------------------------ app.py
\* A source file is missing, unreadable (read_csv faults on it) or holds data;
\* the data of a file is told apart by its number of records.
Missing == [kind |-> "missing", rows |-> 0]
Unreadable == [kind |-> "unreadable", rows |-> 0]
Data(n) == [kind |-> "data", rows |-> n]

DATA_PATH_MKT == "data/raw/olist_marketing_qualified_leads_dataset.csv"
DATA_PATH_CLOSED == "data/raw/olist_closed_deals_dataset.csv"

\* df_mkt.merge(df_closed, on='mql_id', how='left') of n leads and deals closed
\* for the first m of them
merged(n, m) ==
    Frame(JoinedCols,
          [i \in 1..n |->
              JoinedRow(Some(i), DateText(i), Some("organic"), Some(1), Some("sr"),
                        IF i <= m THEN DateTimeText(i) ELSE NaN, Some("seg"))])

\* pd.DataFrame()
EmptyFrame == Frame({}, <<>>)

\* load_data with the guard on os.path.exists left out
load_data_unguarded(fs) ==
    IF fs.mkt.kind = "missing" \/ fs.closed.kind = "missing" THEN Raise(FileNotFoundError)
    ELSE IF fs.mkt.kind # "data" \/ fs.closed.kind # "data" THEN Ok(EmptyFrame)
    ELSE Ok(merged(fs.mkt.rows, fs.closed.rows))

\* load_data: the empty frame when a file does not exist or when reading or
\* joining raises, the joined record set otherwise; it never raises
load_data(fs) ==
    IF fs.mkt.kind = "missing" \/ fs.closed.kind = "missing" THEN Ok(EmptyFrame)
    ELSE IF fs.mkt.kind # "data" \/ fs.closed.kind # "data" THEN Ok(EmptyFrame)
    ELSE Ok(merged(fs.mkt.rows, fs.closed.rows))

\* DataFrame.empty
empty(df) == df.rows = <<>>

LoadErrorMessage == "No se pudieron cargar los datos"
HaltWarning == "La aplicacion no puede continuar porque los datos no se cargaron correctamente"
WeeklyPlotWarning == "Could not generate data for the weekly actual vs predicted plot"
AggregatedPlotWarning == "Could not generate data for the aggregated MQL plot"

\* the body of load_and_process_data: what it returns, the messages it emits
\* and the functions it invokes with their outcomes; an exception of load_data
\* or preprocess_data leaves the body
load_and_process_data(fs) ==
    LET loaded == load_data(fs)
    IN  IF loaded.status # "ok"
        THEN [exception |-> loaded.status, result |-> <<None, None, None>>,
              messages |-> {}, calls |-> [f \in {"load_data"} |-> loaded.status]]
        ELSE IF empty(loaded.value)
        THEN [exception |-> "none", result |-> <<None, None, None>>,
              messages |-> {LoadErrorMessage},
              calls |-> [f \in {"load_data"} |-> "empty"]]
        ELSE LET processed == preprocess_data(loaded.value)
             IN  [exception |-> IF processed.status = "ok" THEN "none" ELSE processed.status,
                  result |-> <<loaded, processed, Ok("data_dir")>>,
                  messages |-> {},
                  calls |-> [f \in {"load_data", "preprocess_data"} |->
                                IF f = "load_data" THEN "frame" ELSE processed.status]]

\* pd.read_csv of the two paths, in order, and their left join
read_sources(fs) ==
    IF fs.mkt.kind = "missing" THEN Raise(FileNotFoundError)
    ELSE IF fs.mkt.kind = "unreadable" THEN Raise("ParserError")
    ELSE IF fs.closed.kind = "missing" THEN Raise(FileNotFoundError)
    ELSE IF fs.closed.kind = "unreadable" THEN Raise("ParserError")
    ELSE Ok(merged(fs.mkt.rows, fs.closed.rows))

\* calculate_origin_score(origin_conversion_df) with the default weights, on the
\* table calculate_origin_conversion returned: the outcome of the call, its rows
\* left symbolic
score_of_conversion(conversion) ==
    IF ~(ScoreRequired \subseteq conversion.cols) THEN Raise(ValueError)
    ELSE [status |-> "ok", value |-> [scored |-> conversion]]

\* st.cache_data: the entries of a function are keyed by the arguments of the
\* call, and a stored entry is returned, with its messages replayed, without
\* running the body
cache_hit(entries, key) == key \in DOMAIN entries

cache_store(entries, key, entry) ==
    [k \in DOMAIN entries \cup {key} |-> IF k = key THEN entry ELSE entries[k]]

\* record sets that vary the lead identifier, the qualification reference and
\* the closure date of each row
FunnelRows ==
    {JoinedRow(m, DateText(1), Some("organic"), Some(1), sr, won, Some("seg")) :
        m \in LeadIds, sr \in {NaN, Some("sr")}, won \in {NaN, DateTimeText(1)}}

FunnelTables == {Ok(Frame(JoinedCols, rows)) : rows \in SeqUpTo(FunnelRows, MaxFunnelRows)}

\* the script is not running: no file is looked at and nothing is cached
InitAppIdle ==
    /\ files = [mkt |-> Missing, closed |-> Missing]
    /\ cache = [load_and_process_data |-> <<>>, generate_forecast_data |-> <<>>]
    /\ pc = "idle"
    /\ calls = <<>>
    /\ cache_hits = {}

InitForecastIdle ==
    /\ forecast_locals = NotComputed
    /\ forecast_out = NotComputed
    /\ messages = {}

InitIdle ==
    /\ InitForecastIdle
    /\ df_processed = NotComputed
    /\ df_reprocessed = NotComputed
    /\ funnel_metrics = NotComputed
    /\ origin_conversion = NotComputed
    /\ score_input = NotComputed
    /\ weights = <<0, 0>>
    /\ df_scored = NotComputed
    /\ origin_score = NotComputed

InitFunnel ==
    /\ df_raw \in FunnelTables
    /\ InitIdle
    /\ InitAppIdle

\* app.py:141  funnel_metrics = calculate_funnel_metrics(df_raw)
CalculateFunnelMetrics ==
    /\ df_raw.status = "ok"
    /\ funnel_metrics.status = "NotComputed"
    /\ funnel_metrics' = calculate_funnel_metrics(df_raw.value)
    /\ UNCHANGED <<df_raw, df_processed, origin_conversion,
                   score_input, weights, df_scored, origin_score, forecast_vars, app_vars, df_reprocessed>>

NextFunnel == CalculateFunnelMetrics

SpecFunnel == InitFunnel /\ [][NextFunnel]_vars

\* record sets that vary the two date texts and the origin of each row
FirstContactTexts == {NaN, BadText, DateTimeText(1)} \cup {DateText(d) : d \in 1..MaxDay}
WonDateTexts == {NaN, BadText} \cup {DateTimeText(d) : d \in 1..MaxDay}

DateRows ==
    {JoinedRow(Some(1), fc, o, Some(1), Some("sr"), won, Some("seg")) :
        fc \in FirstContactTexts, won \in WonDateTexts, o \in {NaN, Some("organic")}}

DateTables == {Ok(Frame(JoinedCols, rows)) : rows \in SeqUpTo(DateRows, MaxRows)}

\* record sets that vary the completeness of each column: column c is defined
\* in its first k[c] rows; the sellers are all the same one or all distinct
VariedCols == {"mql_id", "first_contact_date", "origin", "seller_id", "sr_id",
               "won_date", "business_segment"}

CompletenessRow(i, k, distinct) ==
    LET cell(c, v) == IF i <= k[c] THEN v ELSE NaN
    IN  JoinedRow(cell("mql_id", Some(1)),
                  cell("first_contact_date", DateText(1)),
                  cell("origin", Some("organic")),
                  cell("seller_id", Some(IF distinct THEN i ELSE 1)),
                  cell("sr_id", Some("sr")),
                  cell("won_date", DateTimeText(1)),
                  cell("business_segment", Some("seg")))

CompletenessTables ==
    {Ok(Frame(JoinedCols, [i \in 1..MaxRows |-> CompletenessRow(i, k, distinct)])) :
        k \in [VariedCols -> 0..MaxRows], distinct \in BOOLEAN}

InitPre ==
    /\ df_raw \in DateTables \cup CompletenessTables
    /\ InitIdle
    /\ InitAppIdle

\* app.py:64  df_processed = preprocess_data(df_raw.copy())
PreprocessData ==
    /\ df_raw.status = "ok"
    /\ df_processed.status = "NotComputed"
    /\ df_processed' = preprocess_data(df_raw.value)
    /\ df_raw' = Ok(input_after_preprocess(df_raw.value))
    /\ UNCHANGED <<funnel_metrics, origin_conversion,
                   score_input, weights, df_scored, origin_score, forecast_vars, app_vars, df_reprocessed>>

NextPre == PreprocessData

SpecPre == InitPre /\ [][NextPre]_vars

\* a further invocation of preprocess_data on the record set the caller holds
\* after the first one
PreprocessDataAgain ==
    /\ df_raw.status = "ok"
    /\ df_processed.status # "NotComputed"
    /\ df_reprocessed.status = "NotComputed"
    /\ df_reprocessed' = preprocess_data(df_raw.value)
    /\ df_raw' = Ok(input_after_preprocess(df_raw.value))
    /\ UNCHANGED <<df_processed, funnel_metrics, origin_conversion,
                   score_input, weights, df_scored, origin_score, forecast_vars,
                   app_vars>>

NextPreTwice == PreprocessData \/ PreprocessDataAgain

SpecPreTwice == InitPre /\ [][NextPreTwice]_vars

\* origin tables: one row per origin, each metric undefined or 0..MaxVal
OriginTableCols == {"origin", "mql", "won", "days_to_convert_q3", "mql_percentage",
                    "won_percentage", "conversion", "weighted_conversion"}
Metrics == {NaN} \cup {Some(v) : v \in 0..MaxVal}

OriginRow(i, wc, days) ==
    [c \in OriginTableCols |->
        CASE c = "origin" -> Some(OriginNames[i])
          [] c = "weighted_conversion" -> wc
          [] c = "days_to_convert_q3" -> days
          [] OTHER -> Some(0)]

ScoreTables ==
    {Frame(OriginTableCols, [i \in 1..n |-> OriginRow(i, m[i][1], m[i][2])]) :
        n \in 0..MaxOrigins, m \in [1..MaxOrigins -> Metrics \X Metrics]}

\* weight pairs in millionths: the default, a pair summing to 0.9, a pair with a
\* negative weight, pairs off 1.0 by 0.000005 and by 0.00002, and (1, 0)
WeightPairs == {<<600000, 400000>>, <<500000, 400000>>, <<1500000, -500000>>,
                <<600000, 400005>>, <<600000, 400020>>, <<1000000, 0>>}

InitScore ==
    /\ df_raw = NotComputed
    /\ df_processed = NotComputed
    /\ funnel_metrics = NotComputed
    /\ origin_conversion = NotComputed
    /\ score_input \in {Ok(t) : t \in ScoreTables}
    /\ weights \in WeightPairs
    /\ df_scored = NotComputed
    /\ origin_score = NotComputed
    /\ InitForecastIdle
    /\ InitAppIdle
    /\ df_reprocessed = NotComputed

\* app.py:160  origin_score_df = calculate_origin_score(origin_conversion_df)
CalculateOriginScore ==
    /\ score_input.status = "ok"
    /\ origin_score.status = "NotComputed"
    /\ df_scored' = scored_copy(score_input.value, weights)
    /\ origin_score' = calculate_origin_score(score_input.value, weights)
    /\ UNCHANGED <<df_raw, df_processed, funnel_metrics, origin_conversion,
                   score_input, weights, forecast_vars, app_vars, df_reprocessed>>

NextScore == CalculateOriginScore

SpecScore == InitScore /\ [][NextScore]_vars

\* record sets that vary the origin, the lead identifier and the closure date
ConversionRows ==
    {JoinedRow(m, DateText(1), o, Some(1), Some("sr"), won, Some("seg")) :
        m \in {NaN, Some(1)}, won \in WonDateTexts,
        o \in {NaN, Some("organic"), Some("paid_search")}}

ConversionTables ==
    {Ok(Frame(JoinedCols, rows)) : rows \in SeqUpTo(ConversionRows, MaxRows)}

InitConv ==
    /\ df_raw \in ConversionTables
    /\ InitIdle
    /\ InitAppIdle

\* app.py:159  origin_conversion_df = calculate_origin_conversion(df_processed)
CalculateOriginConversion ==
    /\ df_processed.status = "ok"
    /\ origin_conversion.status = "NotComputed"
    /\ origin_conversion' = calculate_origin_conversion(df_processed.value)
    /\ UNCHANGED <<df_raw, df_processed, funnel_metrics,
                   score_input, weights, df_scored, origin_score, forecast_vars, app_vars, df_reprocessed>>

NextConv == PreprocessData \/ CalculateOriginConversion

SpecConv == InitConv /\ [][NextConv]_vars

\* what the two reads and the left join of generate_forecast_data yield: a read
\* fault, or a joined record set that varies the first-contact text and the
\* lead identifier of each row
ForecastTexts == {NaN, BadText} \cup {DateText(d) : d \in 1..MaxForecastDay}

ForecastRows ==
    {JoinedRow(m, fc, Some("organic"), Some(1), Some("sr"), NaN, Some("seg")) :
        m \in {NaN, Some(1)}, fc \in ForecastTexts}

ForecastSources ==
    {Raise(FileNotFoundError), Raise("EmptyDataError")} \cup
    {Ok(Frame(JoinedCols, rows)) : rows \in SeqUpTo(ForecastRows, MaxRows)}

\* predicted means the fitted model may give (before rounding)
PredictedMeans == {Ratio(0, 1), Ratio(3, 2), Ratio(5, 2)}

InitForecast ==
    /\ df_raw \in ForecastSources
    /\ InitIdle
    /\ InitAppIdle

\* app.py:248  generate_forecast_data(DATA_PATH_MKT, DATA_PATH_CLOSED, FORECAST_STEPS)
GenerateForecastData ==
    /\ forecast_out.status = "NotComputed"
    /\ \E fit_ok \in BOOLEAN, mean \in PredictedMeans :
        LET e == forecast_exception(df_raw, fit_ok)
        IN  /\ forecast_out' = [status |-> "returned",
                                value |-> generate_forecast_data(df_raw, FORECAST_STEPS, fit_ok, mean)]
            /\ forecast_locals' = forecast_locals_after(df_raw, FORECAST_STEPS, fit_ok, mean)
            /\ messages' = IF e = "none" THEN messages
                           ELSE messages \cup {forecast_error_message(e)}
    /\ UNCHANGED <<df_raw, df_processed, funnel_metrics, origin_conversion,
                   score_input, weights, df_scored, origin_score, app_vars, df_reprocessed>>

NextForecast == GenerateForecastData

SpecForecast == InitForecast /\ [][NextForecast]_vars

\* record sets that vary the first-contact text and the closure text of each
\* row, given to both paths
ParseRows ==
    {JoinedRow(Some(1), fc, Some("organic"), Some(1), Some("sr"), won, Some("seg")) :
        fc \in {NaN, BadText} \cup {DateText(d) : d \in 1..MaxDay},
        won \in WonDateTexts}

ParseTables == {Ok(Frame(JoinedCols, rows)) : rows \in SeqUpTo(ParseRows, MaxRows)}

InitParse ==
    /\ df_raw \in ParseTables
    /\ InitIdle
    /\ InitAppIdle

NextParse == PreprocessData \/ GenerateForecastData

SpecParse == InitParse /\ [][NextParse]_vars

\* the states of a source file and of the pair of them
FileStates == {Missing, Unreadable} \cup {Data(n) : n \in 0..MaxFileRows}

FilePairs == [mkt : FileStates, closed : FileStates]

\* the variables a run of the script assigns, before its first statement
RunStart ==
    /\ df_raw = NotComputed
    /\ df_processed = NotComputed
    /\ df_reprocessed = NotComputed
    /\ funnel_metrics = NotComputed
    /\ origin_conversion = NotComputed
    /\ score_input = NotComputed
    /\ weights = <<600000, 400000>>
    /\ df_scored = NotComputed
    /\ origin_score = NotComputed
    /\ forecast_locals = NotComputed
    /\ forecast_out = NotComputed
    /\ messages = {}
    /\ calls = <<>>
    /\ cache_hits = {}

InitApp ==
    /\ files \in FilePairs
    /\ cache = [load_and_process_data |-> <<>>, generate_forecast_data |-> <<>>]
    /\ pc = "load"
    /\ RunStart

\* between two runs a source file is created, removed, damaged or rewritten
ChangeFile ==
    /\ pc = "load"
    /\ \E f \in {"mkt", "closed"}, s \in FileStates :
        /\ s # files[f]
        /\ files' = [files EXCEPT ![f] = s]
    /\ UNCHANGED <<df_raw, df_processed, funnel_metrics, origin_conversion,
                   score_input, weights, df_scored, origin_score, forecast_vars,
                   cache, pc, calls, cache_hits, df_reprocessed>>

\* app.py:67  df_raw, df_processed, data_path_used = load_and_process_data()
\* and the test of line 133
LoadAndProcessData ==
    /\ pc = "load"
    /\ LET key == <<>>
           entries == cache.load_and_process_data
           hit == cache_hit(entries, key)
           body == load_and_process_data(files)
           entry == IF hit THEN entries[key]
                    ELSE [result |-> body.result, messages |-> body.messages]
           raised == ~hit /\ body.exception # "none"
       IN  /\ cache' = IF hit \/ raised THEN cache
                       ELSE [cache EXCEPT !.load_and_process_data =
                                              cache_store(entries, key, entry)]
           /\ calls' = IF hit THEN calls ELSE body.calls
           /\ cache_hits' =
                IF hit THEN cache_hits \cup
                            {[fn |-> "load_and_process_data",
                              fresh |-> entry.result = body.result]}
                ELSE cache_hits
           /\ df_raw' = IF raised THEN df_raw ELSE entry.result[1]
           /\ df_processed' = IF raised THEN df_processed ELSE entry.result[2]
           /\ messages' = IF raised THEN messages ELSE messages \cup entry.messages
           /\ pc' = IF raised THEN "aborted"
                    ELSE IF entry.result[2].status # "None" THEN "attribution"
                    ELSE "halt"
    /\ UNCHANGED <<funnel_metrics, origin_conversion, score_input, weights,
                   df_scored, origin_score, forecast_locals, forecast_out, files, df_reprocessed>>

\* app.py:276-277  the else branch of "if df_processed is not None"
Halt ==
    /\ pc = "halt"
    /\ messages' = messages \cup {HaltWarning}
    /\ pc' = "done"
    /\ UNCHANGED <<df_raw, df_processed, funnel_metrics, origin_conversion,
                   score_input, weights, df_scored, origin_score,
                   forecast_locals, forecast_out, files, cache, calls, cache_hits, df_reprocessed>>

\* app.py:133-245  the attribution report; an exception of one of the three
\* calls ends the run
AttributionReport ==
    /\ pc = "attribution"
    /\ LET funnel == calculate_funnel_metrics(df_raw.value)
           conversion == IF funnel.status = "ok"
                         THEN calculate_origin_conversion(df_processed.value)
                         ELSE NotComputed
           score == IF conversion.status = "ok"
                    THEN score_of_conversion(conversion.value)
                    ELSE NotComputed
           invoked == {"calculate_funnel_metrics"}
                      \cup (IF funnel.status = "ok"
                            THEN {"calculate_origin_conversion"} ELSE {})
                      \cup (IF conversion.status = "ok"
                            THEN {"calculate_origin_score"} ELSE {})
           outcome(f) == CASE f = "calculate_funnel_metrics" -> funnel.status
                           [] f = "calculate_origin_conversion" -> conversion.status
                           [] f = "calculate_origin_score" -> score.status
       IN  /\ funnel_metrics' = funnel
           /\ origin_conversion' = conversion
           /\ origin_score' = score
           /\ calls' = [f \in DOMAIN calls \cup invoked |->
                           IF f \in invoked THEN outcome(f) ELSE calls[f]]
           /\ pc' = IF score.status = "ok" THEN "forecast" ELSE "aborted"
    /\ UNCHANGED <<df_raw, df_processed, score_input, weights, df_scored,
                   forecast_vars, files, cache, cache_hits, df_reprocessed>>

\* the results generate_forecast_data may give on the current files
ForecastBodies(fs) ==
    {[result |-> generate_forecast_data(read_sources(fs), FORECAST_STEPS, fit_ok, mean),
      locals |-> forecast_locals_after(read_sources(fs), FORECAST_STEPS, fit_ok, mean),
      messages |-> LET e == forecast_exception(read_sources(fs), fit_ok)
                   IN  IF e = "none" THEN {} ELSE {forecast_error_message(e)}] :
        fit_ok \in BOOLEAN, mean \in PredictedMeans}

\* app.py:250-267  the forecast section, inside "if df_processed is not None"
ForecastSection ==
    /\ pc = "forecast"
    /\ LET key == <<DATA_PATH_MKT, DATA_PATH_CLOSED, FORECAST_STEPS>>
           entries == cache.generate_forecast_data
           hit == cache_hit(entries, key)
       IN  \E body \in ForecastBodies(files) :
            LET entry == IF hit THEN entries[key]
                         ELSE [result |-> body.result, messages |-> body.messages]
                warnings ==
                    (IF entry.result[1].status = "None" \/ entry.result[2].status = "None"
                     THEN {WeeklyPlotWarning} ELSE {})
                    \cup (IF entry.result[3].status = "None"
                          THEN {AggregatedPlotWarning} ELSE {})
            IN  /\ cache' = IF hit THEN cache
                            ELSE [cache EXCEPT !.generate_forecast_data =
                                                   cache_store(entries, key, entry)]
                /\ calls' = IF hit THEN calls
                            ELSE [f \in DOMAIN calls \cup {"generate_forecast_data"} |->
                                    IF f = "generate_forecast_data" THEN "returned"
                                    ELSE calls[f]]
                /\ cache_hits' =
                     IF hit THEN cache_hits \cup
                                 {[fn |-> "generate_forecast_data",
                                   fresh |-> \E b \in ForecastBodies(files) :
                                                b.result = entry.result]}
                     ELSE cache_hits
                /\ forecast_out' = [status |-> "returned", value |-> entry.result]
                /\ forecast_locals' = IF hit THEN forecast_locals ELSE body.locals
                /\ messages' = messages \cup entry.messages \cup warnings
    /\ pc' = "done"
    /\ UNCHANGED <<df_raw, df_processed, funnel_metrics, origin_conversion,
                   score_input, weights, df_scored, origin_score, files, df_reprocessed>>

\* a user interaction or a reload runs the script again from its first statement
Rerun ==
    /\ pc \in {"done", "aborted"}
    /\ pc' = "load"
    /\ df_raw' = NotComputed
    /\ df_processed' = NotComputed
    /\ funnel_metrics' = NotComputed
    /\ origin_conversion' = NotComputed
    /\ origin_score' = NotComputed
    /\ forecast_locals' = NotComputed
    /\ forecast_out' = NotComputed
    /\ messages' = {}
    /\ calls' = <<>>
    /\ cache_hits' = {}
    /\ UNCHANGED <<score_input, weights, df_scored, files, cache, df_reprocessed>>

NextApp ==
    \/ ChangeFile
    \/ LoadAndProcessData
    \/ Halt
    \/ AttributionReport
    \/ ForecastSection
    \/ Rerun

SpecApp == InitApp /\ [][NextApp]_vars

FunnelKeys == {"n_mql", "n_sql", "n_won", "conversion_mql_to_sql",
               "conversion_sql_to_won", "conversion_mql_to_won"}

\* C1: the counts returned by calculate_funnel_metrics satisfy
\* n_won <= n_sql <= n_mql for every joined record set.
C1_FunnelNonIncreasing ==
    funnel_metrics.status = "ok" =>
        /\ funnel_metrics.value.n_won <= funnel_metrics.value.n_sql
        /\ funnel_metrics.value.n_sql <= funnel_metrics.value.n_mql

\* C2: each of the three ratios returned by calculate_funnel_metrics lies in [0,1].
C2_FunnelRatiosInUnitInterval ==
    funnel_metrics.status = "ok" =>
        /\ InUnitInterval(funnel_metrics.value.conversion_mql_to_sql)
        /\ InUnitInterval(funnel_metrics.value.conversion_sql_to_won)
        /\ InUnitInterval(funnel_metrics.value.conversion_mql_to_won)

\* C3: calculate_funnel_metrics never faults on a zero denominator: it returns
\* the full fixed-key mapping, with the MQL-to-SQL and MQL-to-Won ratios 0 when
\* n_mql = 0 and the SQL-to-Won ratio 0 when n_sql = 0.
C3_FunnelZeroDenominator ==
    funnel_metrics.status # "NotComputed" =>
        /\ funnel_metrics.status = "ok"
        /\ DOMAIN funnel_metrics.value = FunnelKeys
        /\ funnel_metrics.value.n_mql = 0 =>
                /\ funnel_metrics.value.conversion_mql_to_sql = Zero
                /\ funnel_metrics.value.conversion_mql_to_won = Zero
        /\ funnel_metrics.value.n_sql = 0 =>
                funnel_metrics.value.conversion_sql_to_won = Zero

\* a non-empty record set without any lead identifier has been measured
C3_Witness ==
    /\ funnel_metrics.status = "ok"
    /\ df_raw.value.rows # <<>>
    /\ funnel_metrics.value.n_mql = 0
    /\ funnel_metrics.value.n_sql = 0

\* C4: for every origin table and every weight pair calculate_origin_score
\* accepts, every origin_score of the result lies in [0,1].
C4_OriginScoreInUnitInterval ==
    origin_score.status = "ok" =>
        \A i \in DOMAIN origin_score.value.rows :
            InUnitInterval(origin_score.value.rows[i]["origin_score"])

\* all rows of the result agree on column col
AllSame(rows, col) == \A i, j \in DOMAIN rows : rows[i][col] = rows[j][col]

\* C5: when all origins share the same value of a component once undefined
\* values are filled, that component's normalized value is 0.5 for every origin.
C5_DegenerateComponentIsHalf ==
    origin_score.status = "ok" =>
        LET rows == origin_score.value.rows
        IN  /\ AllSame(rows, "weighted_conversion") =>
                    \A i \in DOMAIN rows : rows[i]["norm_weighted_conversion"] = Half
            /\ AllSame(rows, "days_to_convert_q3") =>
                    \A i \in DOMAIN rows : rows[i]["norm_days_to_convert"] = Half

\* two origins, one without weighted_conversion and one with 0, were scored:
\* after the fill they share the value and both get 0.5, while their days differ
C5_Witness ==
    /\ origin_score.status = "ok"
    /\ Len(score_input.value.rows) = 2
    /\ \E i, j \in DOMAIN score_input.value.rows :
            /\ isnull(score_input.value.rows[i]["weighted_conversion"])
            /\ score_input.value.rows[j]["weighted_conversion"] = Some(0)
    /\ \A i \in DOMAIN origin_score.value.rows :
            origin_score.value.rows[i]["norm_weighted_conversion"] = Half
    /\ ~AllSame(origin_score.value.rows, "days_to_convert_q3")

\* the call was refused before any computation: an error, no copy, no table
RejectedBeforeComputation ==
    /\ origin_score = Raise(ValueError)
    /\ df_scored = NotComputed

\* C6 as stated: every weight pair that does not sum to exactly 1.0 is rejected
\* before any computation starts.
C6_RejectsEverySumOtherThanOne ==
    (origin_score.status # "NotComputed" /\ weights[1] + weights[2] # One)
        => RejectedBeforeComputation

\* C6 amended: every weight pair whose sum differs from 1.0 by more than
\* 0.00001001 (atol 1e-8 plus rtol 1e-5) is rejected before any computation.
C6_RejectsSumOutsideTolerance ==
    (origin_score.status # "NotComputed"
        /\ 100 * Abs(weights[1] + weights[2] - One) > 1001)
        => RejectedBeforeComputation

\* the pair 0.5, 0.4 was given with a non-empty table and refused
C6_Witness ==
    /\ weights = <<500000, 400000>>
    /\ score_input.value.rows # <<>>
    /\ RejectedBeforeComputation

\* C7: in every record produced by preprocess_data, days_to_convert is
\* undefined whenever the closure date or the first-contact date is undefined,
\* and when defined it is non-negative and equals closure date minus
\* first-contact date.
C7_DaysToConvertNonNegative ==
    df_processed.status = "ok" =>
        \A i \in DOMAIN df_processed.value.rows :
            LET row == df_processed.value.rows[i]
                days == row["days_to_convert"]
            IN  /\ (isnull(row["won_date"]) \/ isnull(row["first_contact_date"]))
                        => isnull(days)
                /\ notna(days) =>
                        /\ Get(days) >= 0
                        /\ Get(days) = Get(row["won_date"]) - Get(row["first_contact_date"])

\* C8: every essential column present in the input of preprocess_data is
\* present in its output, whatever its completeness.
C8_EssentialColumnsKept ==
    df_processed.status = "ok" =>
        \A c \in essential_cols \cap df_raw.value.cols : c \in df_processed.value.cols

\* an essential column with no value at all was found low in completeness,
\* a non-essential one was dropped for the same reason, and the essential one
\* is in the output
C8_Witness ==
    /\ df_processed.status = "ok"
    /\ "sr_id" \in get_low_completion_columns(df_raw.value, Threshold)
    /\ count(df_raw.value.rows, "sr_id") = 0
    /\ "business_segment" \in get_low_completion_columns(df_raw.value, Threshold)
    /\ "business_segment" \notin df_processed.value.cols
    /\ "sr_id" \in df_processed.value.cols

C10_OriginRowBounds ==
    origin_conversion.status = "ok" =>
        \A i \in DOMAIN origin_conversion.value.rows :
            LET row == origin_conversion.value.rows[i]
            IN  /\ 0 <= row["won"]
                /\ row["won"] <= row["mql"]
                /\ row["conversion"].kind = "num"
                /\ 0 <= row["conversion"].v.num
                /\ row["conversion"].v.num <= 100 * row["conversion"].v.den

\* sum over the rows of the hundredths of a rounded percentage column
RECURSIVE SumHundredths(_, _)
SumHundredths(rows, col) ==
    IF rows = <<>> THEN 0
    ELSE Head(rows)[col].v.num + SumHundredths(Tail(rows), col)

\* a column of percentages rounded to two decimals sums to 100 within the
\* rounding of its n terms (0.005 each)
SumsTo100(rows, col) ==
    /\ \A i \in DOMAIN rows : rows[i][col].kind = "num"
    /\ 2 * Abs(SumHundredths(rows, col) - 100 * 100) <= Len(rows)

\* C11: in every output of calculate_origin_conversion with at least one known
\* origin, mql_percentage sums to 100 and won_percentage sums to 100 over the
\* origins, up to rounding, also when no lead converted (stated for record
\* sets in which every row carries its lead identifier).
C11_PercentagesSumTo100 ==
    (/\ origin_conversion.status = "ok"
     /\ origin_conversion.value.rows # <<>>
     /\ \A i \in DOMAIN df_processed.value.rows :
            notna(df_processed.value.rows[i]["mql_id"])) =>
        /\ SumsTo100(origin_conversion.value.rows, "mql_percentage")
        /\ SumsTo100(origin_conversion.value.rows, "won_percentage")

\* leads of an origin: the preprocessed rows of that origin that carry a lead
\* identifier; converted ones have target = 1
LeadsOf(rows, o) ==
    {i \in DOMAIN rows : rows[i]["origin"] = o /\ notna(rows[i]["mql_id"])}
ConvertedLeadsOf(rows, o) ==
    {i \in LeadsOf(rows, o) : rows[i]["target"] = Some(1)}

\* C20: calculate_origin_conversion yields exactly one row per distinct origin
\* other than 'unknown' and none for 'unknown'; each row has mql = number of
\* leads of that origin, won = number of converted leads of that origin and
\* conversion = 100 * won / mql.
C20_OneRowPerKnownOrigin ==
    origin_conversion.status = "ok" =>
        LET out == origin_conversion.value.rows
            inp == df_processed.value.rows
            known == {inp[i]["origin"] : i \in DOMAIN inp} \ {Some("unknown")}
        IN  /\ {out[i]["origin"] : i \in DOMAIN out} = known
            /\ Len(out) = Cardinality(known)
            /\ \A i \in DOMAIN out :
                    LET o == out[i]["origin"]
                    IN  /\ out[i]["mql"] = Cardinality(LeadsOf(inp, o))
                        /\ out[i]["won"] = Cardinality(ConvertedLeadsOf(inp, o))
                        /\ out[i]["conversion"].kind = "num"
                        /\ out[i]["mql"] > 0
                        /\ RatEq(out[i]["conversion"].v,
                                 Ratio(100 * out[i]["won"], out[i]["mql"]))

\* C14: when generate_forecast_data fails at any step (a read, the date range,
\* the model fit), a diagnostic is reported and its three outputs are absent
\* together; it never returns some outputs without the others, and a call that
\* returns outputs returns all three.
C14_FailureGivesNoOutputs ==
    forecast_out.status = "returned" =>
        LET out == forecast_out.value
            e == forecast_locals.exception
        IN  /\ {out[i].status : i \in 1..3} \in {{"None"}, {"ok"}}
            /\ e # "none" =>
                    /\ \A i \in 1..3 : out[i].status = "None"
                    /\ forecast_error_message(e) \in messages
            /\ e = "none" =>
                    /\ \A i \in 1..3 : out[i].status = "ok"
                    /\ messages = {}

\* the fit fails after the weekly series was built, and nothing is returned
C14_Witness ==
    /\ forecast_out.status = "returned"
    /\ forecast_locals.exception = ModelError
    /\ forecast_locals.mql_weekly_series_pd.status = "ok"
    /\ \A i \in 1..3 : forecast_out.value[i].status = "None"
    /\ messages # {}

\* C16: in a forecast that was produced, every Predicted date is strictly later
\* than every Actual date, the combined series is the Actual points followed
\* by the Predicted points, every point carries exactly one of the two tags,
\* and there are exactly forecast_n Predicted points.
C16_PredictedFollowActual ==
    (forecast_out.status = "returned" /\ forecast_locals.exception = "none") =>
        LET actual == forecast_out.value[1].value
            predicted == forecast_out.value[2].value
            combined == forecast_locals.df_concat.value
        IN  /\ \A i \in DOMAIN actual : \A j \in DOMAIN predicted :
                    actual[i]["first_contact_date"] < predicted[j]["first_contact_date"]
            /\ Len(combined) = Len(actual) + Len(predicted)
            /\ \A i \in DOMAIN actual : combined[i] = actual[i]
            /\ \A j \in DOMAIN predicted : combined[Len(actual) + j] = predicted[j]
            /\ \A i \in DOMAIN actual : actual[i]["Data Type"] = "Actual"
            /\ \A j \in DOMAIN predicted : predicted[j]["Data Type"] = "Predicted"
            /\ Len(predicted) = FORECAST_STEPS
            /\ Cardinality({i \in DOMAIN combined :
                               combined[i]["Data Type"] = "Predicted"}) = FORECAST_STEPS
            /\ Cardinality({combined[i]["first_contact_date"] : i \in DOMAIN combined})
                   = Len(combined)

\* a forecast over two observed weeks
C16_Witness ==
    /\ forecast_out.status = "returned"
    /\ forecast_locals.exception = "none"
    /\ Len(forecast_out.value[1].value) = 2
    /\ Len(forecast_out.value[2].value) = FORECAST_STEPS

\* the rows of the joined record set first-contacted on day d that carry a lead
\* identifier
LeadsOn(rows, d) ==
    {i \in DOMAIN rows : rows[i]["first_contact_date"] = DateText(d)
                          /\ notna(rows[i]["mql_id"])}

ObservedDays(rows) ==
    {d \in 1..MaxForecastDay :
        \E i \in DOMAIN rows : rows[i]["first_contact_date"] = DateText(d)}

\* C17: after the reindex step the daily series has exactly one entry for every
\* calendar day from the first to the last observed first-contact date; a day
\* without leads has count 0 and a day with leads has the number of leads (rows
\* carrying a lead identifier) first-contacted that day.
C17_DailySeriesCoversEveryDay ==
    (forecast_locals.status = "ok" /\ forecast_locals.mql_daily_series.status = "ok") =>
        LET daily == forecast_locals.mql_daily_series.value
            rows == df_raw.value.rows
            days == ObservedDays(rows)
        IN  /\ days # {}
            /\ DOMAIN daily = SetMin(days) .. SetMax(days)
            /\ \A d \in DOMAIN daily : daily[d] = Cardinality(LeadsOn(rows, d))
            /\ \A d \in DOMAIN daily : d \notin days => daily[d] = 0

\* a day without leads between two days with leads
C17_Witness ==
    /\ forecast_locals.status = "ok"
    /\ forecast_locals.mql_daily_series.status = "ok"
    /\ \E d \in DOMAIN forecast_locals.mql_daily_series.value :
          LET daily == forecast_locals.mql_daily_series.value
          IN  /\ d - 1 \in DOMAIN daily /\ d + 1 \in DOMAIN daily
              /\ daily[d] = 0 /\ daily[d - 1] > 0 /\ daily[d + 1] > 0

\* the daily entries on or before the cut-off
DailyUpToCutoff(daily) == {d \in DOMAIN daily : d <= CutoffDay}

\* the days of the week that starts on day k
WeekStarting(k) == k .. (k + WeekLen - 1)

\* C18: every weekly point is keyed by the first day of its week (a Monday) and
\* its count is the sum of the daily counts of the days of that week; every day
\* on or before the cut-off lies in exactly one weekly bucket, no later day
\* contributes, and the weekly counts sum to the daily counts up to the cut-off.
C18_WeeklyKeyedByWeekStart ==
    (forecast_locals.status = "ok" /\ forecast_locals.mql_weekly_series_pd.status = "ok") =>
        LET daily == forecast_locals.mql_daily_series.value
            weekly == forecast_locals.mql_weekly_series_pd.value
            days == DailyUpToCutoff(daily)
        IN  /\ \A k \in DOMAIN weekly :
                    /\ WeekLabel(k) = k
                    /\ weekly[k] = SumOver(daily, days \cap WeekStarting(k))
            /\ \A d \in days :
                    Cardinality({k \in DOMAIN weekly : d \in WeekStarting(k)}) = 1
            /\ SumOver(weekly, DOMAIN weekly) = SumOver(daily, days)

\* a text that names a calendar day
IsDateText(c) == notna(c) /\ notna(Get(c).ymd)

\* C19: a date that fails to parse never raises and never removes the row on
\* the attribution path: preprocess_data returns as many rows as it was given,
\* an unparseable first-contact or closure date becomes undefined, and target is
\* 0 when the closure date is missing or unparseable; the forecast path keeps
\* exactly the rows whose first-contact date parses.
C19_ParseFailureKeepsRow ==
    LET rows == df_raw.value.rows
    IN  /\ df_processed.status \in {"NotComputed", "ok"}
        /\ df_processed.status = "ok" =>
              LET out == df_processed.value.rows
              IN  /\ Len(out) = Len(rows)
                  /\ \A i \in DOMAIN rows :
                        /\ isnull(out[i]["first_contact_date"])
                              <=> ~IsDateText(rows[i]["first_contact_date"])
                        /\ isnull(out[i]["won_date"]) <=> ~IsDateText(rows[i]["won_date"])
                        /\ ~IsDateText(rows[i]["won_date"]) => out[i]["target"] = Some(0)
                        /\ IsDateText(rows[i]["won_date"]) => out[i]["target"] = Some(1)
        /\ forecast_locals.status = "ok" =>
              LET kept == forecast_locals.df_processed.value
              IN  /\ Len(kept) = Cardinality({i \in DOMAIN rows :
                                      IsDateText(rows[i]["first_contact_date"])})
                  /\ \A d \in 1..MaxDay :
                        Cardinality({j \in DOMAIN kept : kept[j]["first_contact_date"] = Some(d)})
                        = Cardinality({i \in DOMAIN rows :
                                         rows[i]["first_contact_date"] = DateText(d)})

\* both paths ran on a record set with an unparseable first-contact date and an
\* unparseable closure date: the attribution path kept both rows, the forecast
\* path dropped one
C19_Witness ==
    /\ df_processed.status = "ok"
    /\ forecast_locals.status = "ok"
    /\ Len(df_processed.value.rows) = 2
    /\ Len(forecast_locals.df_processed.value) = 1
    /\ \E i \in DOMAIN df_raw.value.rows :
          /\ df_raw.value.rows[i]["first_contact_date"] = BadText
          /\ df_raw.value.rows[i]["won_date"] = BadText
          /\ df_processed.value.rows[i]["target"] = Some(0)

AttributionFunctions == {"preprocess_data", "calculate_funnel_metrics",
                         "calculate_origin_conversion", "calculate_origin_score"}

\* a source file is missing or unreadable
SourceUnavailable == files.mkt.kind # "data" \/ files.closed.kind # "data"

\* C12: when a source file is missing or unreadable, load_data returns an empty
\* result instead of raising, and the run then halts: preprocess_data,
\* calculate_funnel_metrics, calculate_origin_conversion and
\* calculate_origin_score are not invoked in that run, nothing of the report is
\* computed, and a user-visible message is emitted.
C12_LoadFailureHalts ==
    /\ ("load_data" \in DOMAIN calls /\ SourceUnavailable) =>
            /\ calls["load_data"] = "empty"
            /\ df_raw.status = "None" /\ df_processed.status = "None"
            /\ LoadErrorMessage \in messages
    /\ (pc \notin {"load", "aborted"} /\ df_processed.status = "None") =>
            /\ DOMAIN calls \cap AttributionFunctions = {}
            /\ funnel_metrics.status = "NotComputed"
            /\ origin_conversion.status = "NotComputed"
            /\ origin_score.status = "NotComputed"
            /\ pc \in {"halt", "done"}
            /\ LoadErrorMessage \in messages
            /\ pc = "done" => HaltWarning \in messages
    /\ pc # "aborted"

\* a run that found the leads file missing and has ended
C12_Witness ==
    /\ pc = "done"
    /\ files.mkt.kind = "missing"
    /\ "load_data" \in DOMAIN calls
    /\ calls["load_data"] = "empty"
    /\ HaltWarning \in messages

\* C13: the attribution report and the forecast section do not block each
\* other: a run whose forecast failed has produced the attribution report, and
\* a run whose attribution load failed has still run the forecast and shown its
\* result.
C13_PipelinesIndependent ==
    pc = "done" =>
        /\ (forecast_out.status = "returned" /\ forecast_out.value[1].status = "None")
              => origin_score.status = "ok"
        /\ df_processed.status = "None" => forecast_out.status = "returned"

\* C15: every cache hit of load_and_process_data and of generate_forecast_data
\* returns what a fresh computation on the current source files would return,
\* whatever changes the files went through between the runs.
C15_CacheHitsAreFresh == \A h \in cache_hits : h.fresh

\* the rows of a table that belong to origin o
RowsOfOrigin(rows, o) == {i \in DOMAIN rows : rows[i]["origin"] = o}

\* C21: calculate_origin_score returns exactly one row per origin row of its
\* input, with the same origins, none added and none lost, and its rows are
\* ordered by non-increasing origin_score.
C21_ScoreRowsSortedOnePerOrigin ==
    origin_score.status = "ok" =>
        LET inp == score_input.value.rows
            out == origin_score.value.rows
        IN  /\ Len(out) = Len(inp)
            /\ \A i \in DOMAIN inp :
                    Cardinality(RowsOfOrigin(out, inp[i]["origin"]))
                    = Cardinality(RowsOfOrigin(inp, inp[i]["origin"]))
            /\ \A j \in DOMAIN out : RowsOfOrigin(inp, out[j]["origin"]) # {}
            /\ \A j, k \in DOMAIN out :
                    j < k => ~RatLt(out[j]["origin_score"], out[k]["origin_score"])

\* two origins whose scores differ come back in the reverse of their input order
C21_Witness ==
    /\ origin_score.status = "ok"
    /\ Len(origin_score.value.rows) = 2
    /\ origin_score.value.rows[1]["origin"] = score_input.value.rows[2]["origin"]
    /\ RatLt(origin_score.value.rows[2]["origin_score"],
             origin_score.value.rows[1]["origin_score"])

ObservedDaysQ3(rows) ==
    {Get(rows[i]["days_to_convert_q3"]) :
        i \in {k \in DOMAIN rows : notna(rows[k]["days_to_convert_q3"])}}

\* the row of the score table for the origin of input row i
ScoredRowOf(out, inp, i) ==
    out[CHOOSE j \in DOMAIN out : out[j]["origin"] = inp[i]["origin"]]

====
